---- MODULE Spec2Model ----
(***************************************************************************)
(* A model of the MOSS core of GhostOS:                                    *)
(*   - the transportable PyContext (ghostiss/core/moss/context.py);        *)
(*   - MossCompilerImpl and MossRuntimeImpl (ghostiss/core/moss/impl.py):  *)
(*     the resolved source text, compile and bootstrap, the hidden-block   *)
(*     source filter, the scoped output capture runtime_ctx(), destroy();  *)
(*   - the reflection of values into prompts and their aggregation         *)
(*     (ghostiss/core/moss2/prompts.py);                                   *)
(*   - Thread.update (ghostiss/core/runtime/threads.py).                   *)
(***************************************************************************)
EXTENDS Integers, Sequences, FiniteSets, TLC

VARIABLES
    ctxs,       \* the PyContext objects of the Context model, by holder
    last,       \* the last Context operation, its arguments and the receiver before it
    nops,       \* the number of Context operations made so far
    code,           \* _parse_pycontext_code: the source text, a sequence of characters
    model_visible,  \* _parse_pycontext_code: the model_visible argument
    lines,          \* _parse_pycontext_code: code.split("\n")
    pos,            \* _parse_pycontext_code: the index of the line the loop is at
    hide,           \* _parse_pycontext_code: the scan's state
    results,        \* _parse_pycontext_code: the lines emitted so far
    output,         \* _parse_pycontext_code: the returned text
    fpc,            \* _parse_pycontext_code: "idle", "call", "scan" or "done"
    sys_stdout,         \* sys.stdout: 0 is the channel of the process, k > 0 the buffer of region k
    frames,             \* the runtime_ctx() regions that are open, innermost last
    buffers,            \* the text of each region's StringIO, regions numbered by entry
    console,            \* the text written to the channel of the process
    runtime_std_output, \* MossRuntimeImpl._runtime_std_output
    exc,                \* an exception is propagating to the caller
    attrs,              \* the attributes the MossRuntimeImpl object has
    container_destroyed,\* Container.destroy() was called on the Runtime's container
    moss_pycontext,     \* the facade instance has the attribute __pycontext__
    destroy_calls,      \* the number of destroy() calls made
    entered,            \* history: the channel that was current when each region was entered
    nested,             \* history: a region was entered inside another
    failed,             \* history: a region was left by an exception
    rt_last,            \* history: the last Runtime operation
    heap,           \* the PyContext objects of the Compiler and its Runtime, by reference
    c_ref,          \* MossCompilerImpl._pycontext: a reference into heap, 0 once deleted
    c_predefined,   \* MossCompilerImpl._predefined_locals
    c_injections,   \* the dict MossCompilerImpl._injections, which the Runtime is handed
    c_alive,        \* the Compiler has its attributes: destroy() was not called
    scopes,         \* the state of the parent Container and of the Compiler's child
    resolvable,     \* the dependency scope resolves the types the facade declares
    rt,             \* the MossRuntimeImpl the last compile() returned, if any
    b_last,         \* history: the last Compiler or bootstrap operation and its outcome
    b_pre,          \* history: the state that operation started from
    p_name,         \* default_reflect_local_value_prompt: the argument name
    p_value,        \* the argument value
    p_flags,        \* the arguments cls, module, typing, func and other
    p_called,       \* the call has returned
    p_prompt,       \* what it returned
    s_code,         \* pycontext_code: the source text of the Context
    s_results,      \* what each call so far returned, the next call given the last result
    r_name,         \* reflect_module_attr / reflect_module_locals: the name of the value
    r_value,        \* the value
    r_includes,     \* the argument includes
    r_excludes,     \* the argument excludes
    r_includes_module_prefixes, \* the argument includes_module_prefixes
    r_excludes_module_prefixes, \* the argument excludes_module_prefixes
    r_flags,        \* the arguments _cls, _typing, _func, _module and _other, by keyword
    r_via,          \* "none", or the function that was called: "attr" or "locals"
    r_prompt,       \* what reflect_module_attr returned
    r_yielded,      \* the (name, prompt) pairs reflect_module_locals yielded
    a_prompts,      \* join_prompt_lines / compile_attr_prompts: the fragments, in order
    a_via,          \* "none", or the function that was called: "join" or "compile"
    a_result,       \* the text it returned
    t_lists,        \* the list objects that Thread.appending fields refer to, by reference
    t_threads,      \* the Thread objects made so far: the receiver first, then each result
    t_last          \* history: the last update, its receiver and the receiver's fields before it

ctxVars == <<ctxs, last, nops>>
filterVars == <<code, model_visible, lines, pos, hide, results, output, fpc>>
rtVars == <<sys_stdout, frames, buffers, console, runtime_std_output, exc,
            attrs, container_destroyed, moss_pycontext, destroy_calls,
            entered, nested, failed, rt_last>>
bootVars == <<heap, c_ref, c_predefined, c_injections, c_alive, scopes,
              resolvable, rt, b_last, b_pre>>
promptVars == <<p_name, p_value, p_flags, p_called, p_prompt>>
sourceVars == <<s_code, s_results>>
reflectVars == <<r_name, r_value, r_includes, r_excludes,
                 r_includes_module_prefixes, r_excludes_module_prefixes,
                 r_flags, r_via, r_prompt, r_yielded>>
aggregateVars == <<a_prompts, a_via, a_result>>
threadVars == <<t_lists, t_threads, t_last>>
vars == <<ctxVars, filterVars, rtVars, bootVars, promptVars, sourceVars,
          reflectVars, aggregateVars, threadVars>>

\* What the operations of one component leave alone: the other components.
notCtxVars == <<filterVars, rtVars, bootVars, promptVars, sourceVars,
                reflectVars, aggregateVars, threadVars>>
notFilterVars == <<ctxVars, rtVars, bootVars, promptVars, sourceVars,
                   reflectVars, aggregateVars, threadVars>>
notRtVars == <<ctxVars, filterVars, bootVars, promptVars, sourceVars,
               reflectVars, aggregateVars, threadVars>>
notBootVars == <<ctxVars, filterVars, rtVars, promptVars, sourceVars,
                 reflectVars, aggregateVars, threadVars>>
notPromptVars == <<ctxVars, filterVars, rtVars, bootVars, sourceVars,
                   reflectVars, aggregateVars, threadVars>>
notReflectVars == <<ctxVars, filterVars, rtVars, bootVars, promptVars,
                    sourceVars, aggregateVars, threadVars>>
notSourceVars == <<ctxVars, filterVars, rtVars, bootVars, promptVars,
                   reflectVars, aggregateVars, threadVars>>
notThreadVars == <<ctxVars, filterVars, rtVars, bootVars, promptVars,
                   sourceVars, reflectVars, aggregateVars>>
notAggregateVars == <<ctxVars, filterVars, rtVars, bootVars, promptVars,
                      sourceVars, reflectVars, threadVars>>

\* Python's None.
None == "None"

(***************************************************************************)
(* context.py : Import, Define, PyContext                                  *)
(***************************************************************************)
ModuleNames == {"m"}
SpecNames == {"s", "t"}
AliasNames == {None, "a"}
DefineNames == {"x", "y"}
DefineValues == {1, 2}
Holders == {"self", "other"}

Import == [module : ModuleNames, spec : SpecNames, alias : AliasNames]

Define == [name : DefineNames, desc : {None}, value : DefineValues, model : {None}]

\* Import.get_name: the alias when it is truthy, else the spec.
get_name(imp) == IF imp.alias # None /\ imp.alias # "" THEN imp.alias ELSE imp.spec

\* Import.get_import_path: module + ":" + spec.
get_import_path(imp) == imp.module \o ":" \o imp.spec

\* PyContext(**kwargs): the declared fields are imports and defines, each with
\* default_factory=list; a keyword that names no field is ignored.
PyContext(kwargs) ==
    [imports |-> IF "imports" \in DOMAIN kwargs THEN kwargs.imports ELSE <<>>,
     defines |-> IF "defines" \in DOMAIN kwargs THEN kwargs.defines ELSE <<>>]

EmptyContext == PyContext([imports |-> <<>>])

\* PyContext.add_import: every entry with imp's display name becomes imp;
\* imp is appended when no entry has that name.
add_import(self, imp) ==
    LET n == Len(self.imports)
        done == \E k \in 1..n : get_name(self.imports[k]) = get_name(imp)
        imports == [k \in 1..n |->
                       IF get_name(self.imports[k]) = get_name(imp)
                       THEN imp ELSE self.imports[k]]
    IN  [self EXCEPT !.imports = IF done THEN imports ELSE Append(imports, imp)]

\* PyContext.add_define: every entry named d.name becomes d; d is appended
\* when no entry has that name.
add_define(self, d) ==
    LET n == Len(self.defines)
        done == \E k \in 1..n : self.defines[k].name = d.name
        defines == [k \in 1..n |->
                       IF self.defines[k].name = d.name THEN d ELSE self.defines[k]]
    IN  [self EXCEPT !.defines = IF done THEN defines ELSE Append(defines, d)]

\* The closure append_imports of join, folded over the entries it is called
\* with: an entry is kept when its import path was not seen before.
RECURSIVE append_imports(_, _)
append_imports(imports, todo) ==
    IF todo = <<>> THEN imports
    ELSE LET importing == Head(todo)
             path == get_import_path(importing)
             imported == {get_import_path(imports[k]) : k \in 1..Len(imports)}
         IN  append_imports(IF path \notin imported
                            THEN Append(imports, importing) ELSE imports,
                            Tail(todo))

\* The closure append_vars of join, folded the same way by name.
RECURSIVE append_vars(_, _)
append_vars(vars_list, todo) ==
    IF todo = <<>> THEN vars_list
    ELSE LET var == Head(todo)
             defined_vars == {vars_list[k].name : k \in 1..Len(vars_list)}
         IN  append_vars(IF var.name \notin defined_vars
                         THEN Append(vars_list, var) ELSE vars_list,
                         Tail(todo))

\* PyContext.join: ctx's entries first, then self's; the result is built with
\* the keywords imports= and variables=.
join(self, ctx) ==
    LET imports == append_imports(<<>>, ctx.imports \o self.imports)
        vars_list == append_vars(<<>>, ctx.defines \o self.defines)
    IN  PyContext([imports |-> imports, variables |-> vars_list])

NoImport == [module |-> "", spec |-> "", alias |-> None]
NoDefine == [name |-> "", desc |-> None, value |-> 0, model |-> None]

NoOp == [op |-> "none", tgt |-> "self", arg |-> "self",
         imp |-> NoImport, def |-> NoDefine, pre |-> EmptyContext]

\* The number of Context operations a behaviour makes.
MaxOps == 5

CtxIdle ==
    /\ ctxs = [h \in Holders |-> EmptyContext]
    /\ last = NoOp
    /\ nops = 0

(***************************************************************************)
(* impl.py : MossRuntimeImpl._parse_pycontext_code                         *)
(*                                                                         *)
(* A source text is a sequence of characters.  "M" stands for the text of  *)
(* MOSS_HIDDEN_MARK and "U" for the text of MOSS_HIDDEN_UNMARK, two        *)
(* strings of which neither is a prefix of the other; "x" is any other     *)
(* character and NL the line break.                                        *)
(***************************************************************************)
NL == "\n"
MOSS_HIDDEN_MARK == "M"
MOSS_HIDDEN_UNMARK == "U"
Chars == {MOSS_HIDDEN_MARK, MOSS_HIDDEN_UNMARK, "x", NL}

\* The length of the source texts the filter is run on.
MaxCodeLen == 5

RECURSIVE TextsUpTo(_)
TextsUpTo(n) ==
    IF n = 0 THEN {<<>>}
    ELSE LET shorter == TextsUpTo(n - 1)
         IN  shorter \cup {Append(t, c) : t \in {u \in shorter : Len(u) = n - 1}, c \in Chars}

\* str.split("\n"): the pieces between line breaks; always at least one piece.
RECURSIVE split(_)
split(text) ==
    IF \A k \in 1..Len(text) : text[k] # NL THEN <<text>>
    ELSE LET i == CHOOSE k \in 1..Len(text) :
                      text[k] = NL /\ \A j \in 1..(k - 1) : text[j] # NL
         IN  <<SubSeq(text, 1, i - 1)>> \o split(SubSeq(text, i + 1, Len(text)))

\* "\n".join(pieces)
RECURSIVE join_lines(_)
join_lines(pieces) ==
    IF pieces = <<>> THEN <<>>
    ELSE IF Len(pieces) = 1 THEN pieces[1]
    ELSE pieces[1] \o <<NL>> \o join_lines(Tail(pieces))

\* line.startswith(mark)
startswith(line, mark) == Len(line) >= 1 /\ line[1] = mark

\* The test of line 227: the line is skipped.
skips(h, visible_only) == h /\ visible_only

\* A slip of line 229: a hidden line is never emitted, whatever the caller asked.
emits_when_shown(h, visible_only) == ~h

\* The test of line 229: the line is emitted.
emits(h, visible_only) == ~h \/ ~visible_only

\* One pass of the loop body over `line`, from scan state h and emitted lines rs.
scan_line(h, rs, line, visible_only) ==
    LET h1 == IF startswith(line, MOSS_HIDDEN_MARK) THEN TRUE ELSE h
    IN  IF skips(h1, visible_only) THEN [hide |-> h1, results |-> rs]
        ELSE IF emits(h1, visible_only) THEN [hide |-> h1, results |-> Append(rs, line)]
        ELSE IF startswith(line, MOSS_HIDDEN_UNMARK) THEN [hide |-> FALSE, results |-> rs]
        ELSE [hide |-> h1, results |-> rs]

FilterIdle ==
    /\ code = <<>>
    /\ model_visible = TRUE
    /\ lines = <<>>
    /\ pos = 0
    /\ hide = FALSE
    /\ results = <<>>
    /\ output = <<>>
    /\ fpc = "idle"

\* A call of _parse_pycontext_code(code, model_visible) is about to start.
FilterCalled ==
    /\ code \in TextsUpTo(MaxCodeLen)
    /\ model_visible \in BOOLEAN
    /\ lines = <<>>
    /\ pos = 0
    /\ hide = FALSE
    /\ results = <<>>
    /\ output = <<>>
    /\ fpc = "call"

\* lines 221-223
ParseStart ==
    /\ fpc = "call"
    /\ lines' = split(code)
    /\ results' = <<>>
    /\ hide' = FALSE
    /\ pos' = 1
    /\ fpc' = "scan"
    /\ UNCHANGED <<code, model_visible, output, notFilterVars>>

\* lines 224-232: the loop body on the next line
ScanLine ==
    /\ fpc = "scan"
    /\ pos <= Len(lines)
    /\ LET after == scan_line(hide, results, lines[pos], model_visible)
       IN  /\ hide' = after.hide
           /\ results' = after.results
    /\ pos' = pos + 1
    /\ UNCHANGED <<code, model_visible, lines, output, fpc, notFilterVars>>

\* line 233
ParseReturn ==
    /\ fpc = "scan"
    /\ pos > Len(lines)
    /\ output' = join_lines(results)
    /\ fpc' = "done"
    /\ UNCHANGED <<code, model_visible, lines, pos, hide, results, notFilterVars>>

NextFilter == ParseStart \/ ScanLine \/ ParseReturn

(***************************************************************************)
(* impl.py : MossRuntimeImpl.runtime_ctx, dump_std_output, destroy         *)
(***************************************************************************)
OutChars == {"a", "b"}

\* The regions a behaviour enters, how deep it nests them, the characters
\* it prints and the destroy() calls it makes.
MaxRegions == 3
MaxDepth == 2
MaxPrints == 3
MaxDestroy == 2

\* The attributes __init__ sets and destroy() deletes.
DestroyedAttrs == {"_container", "_injections", "_compiled", "_moss"}
RuntimeAttrs == DestroyedAttrs \cup
    {"_modules", "_source_code", "_pycontext", "_runtime_std_output", "_built", "_moss_prompt"}

RECURSIVE Concat(_)
Concat(texts) == IF texts = <<>> THEN <<>> ELSE Head(texts) \o Concat(Tail(texts))

Printed == Len(console) + Len(Concat(buffers))

\* A slip of line 208: the channel is put back only after the yield returns.
restored_stdout_unless_raised(frame, raised) ==
    IF raised THEN frame.buffer ELSE frame.old

\* redirect_stdout.__exit__ (line 208): the channel saved at entry is put
\* back, whether the region returned or raised.
restored_stdout(frame, raised) == frame.old

\* A slip of line 210: = for +=.
overwritten_output(log, text) == text

\* line 210: self._runtime_std_output += str(buffer.getvalue())
appended_output(log, text) == log \o text

\* The state after MossRuntimeImpl.__init__ (lines 110-121).
RtIdle ==
    /\ sys_stdout = 0
    /\ frames = <<>>
    /\ buffers = <<>>
    /\ console = <<>>
    /\ runtime_std_output = <<>>
    /\ exc = FALSE
    /\ attrs = RuntimeAttrs
    /\ container_destroyed = FALSE
    /\ moss_pycontext = TRUE
    /\ destroy_calls = 0
    /\ entered = <<>>
    /\ nested = FALSE
    /\ failed = FALSE
    /\ rt_last = [op |-> "none", region |-> 0, error |-> None]

destroyVars == <<attrs, container_destroyed, moss_pycontext, destroy_calls>>

\* lines 207-208, to the yield: a new buffer becomes sys.stdout.
EnterRuntimeCtx ==
    /\ ~exc
    /\ Len(buffers) < MaxRegions
    /\ Len(frames) < MaxDepth
    /\ LET id == Len(buffers) + 1
       IN  /\ buffers' = Append(buffers, <<>>)
           /\ frames' = Append(frames, [buffer |-> id, old |-> sys_stdout])
           /\ sys_stdout' = id
           /\ rt_last' = [op |-> "enter", region |-> id, error |-> None]
    /\ entered' = Append(entered, sys_stdout)
    /\ nested' = (nested \/ frames # <<>>)
    /\ UNCHANGED <<console, runtime_std_output, exc, failed, destroyVars, notRtVars>>

\* The caller's code prints one character to sys.stdout.
PrintChar(c) ==
    /\ ~exc
    /\ Printed < MaxPrints
    /\ IF sys_stdout = 0
       THEN console' = Append(console, c) /\ UNCHANGED buffers
       ELSE buffers' = [buffers EXCEPT ![sys_stdout] = Append(@, c)] /\ UNCHANGED console
    /\ rt_last' = [op |-> "print", region |-> sys_stdout, error |-> None]
    /\ UNCHANGED <<sys_stdout, frames, runtime_std_output, exc, entered, nested, failed,
                   destroyVars, notRtVars>>

\* lines 208-210, from the yield on, when the region returns.
ExitRuntimeCtx ==
    /\ ~exc
    /\ frames # <<>>
    /\ LET frame == frames[Len(frames)]
       IN  /\ sys_stdout' = restored_stdout(frame, FALSE)
           /\ runtime_std_output' = appended_output(runtime_std_output, buffers[frame.buffer])
           /\ rt_last' = [op |-> "exit", region |-> frame.buffer, error |-> None]
    /\ frames' = SubSeq(frames, 1, Len(frames) - 1)
    /\ UNCHANGED <<buffers, console, exc, entered, nested, failed, destroyVars, notRtVars>>

\* line 208, from the yield on, when the region raises or an exception passes
\* through it: the with statement ends and the exception leaves the generator
\* before line 210.
RaiseRuntimeCtx ==
    /\ frames # <<>>
    /\ LET frame == frames[Len(frames)]
       IN  /\ sys_stdout' = restored_stdout(frame, TRUE)
           /\ rt_last' = [op |-> "exit_raise", region |-> frame.buffer, error |-> "Exception"]
    /\ frames' = SubSeq(frames, 1, Len(frames) - 1)
    /\ exc' = TRUE
    /\ failed' = TRUE
    /\ UNCHANGED <<buffers, console, runtime_std_output, entered, nested, destroyVars,
                   notRtVars>>

\* The caller catches the exception.
Catch ==
    /\ exc
    /\ exc' = FALSE
    /\ rt_last' = [op |-> "catch", region |-> 0, error |-> None]
    /\ UNCHANGED <<sys_stdout, frames, buffers, console, runtime_std_output, entered,
                   nested, failed, destroyVars, notRtVars>>

\* MossRuntimeImpl.destroy (lines 235-242): line 236 reads self._container.
Destroy ==
    /\ ~exc
    /\ destroy_calls < MaxDestroy
    /\ destroy_calls' = destroy_calls + 1
    /\ IF "_container" \notin attrs
       THEN /\ exc' = TRUE
            /\ rt_last' = [op |-> "destroy", region |-> 0, error |-> "AttributeError"]
            /\ UNCHANGED <<attrs, container_destroyed, moss_pycontext>>
       ELSE /\ container_destroyed' = TRUE
            /\ moss_pycontext' = FALSE
            /\ attrs' = attrs \ DestroyedAttrs
            /\ rt_last' = [op |-> "destroy", region |-> 0, error |-> None]
            /\ UNCHANGED exc
    /\ UNCHANGED <<sys_stdout, frames, buffers, console, runtime_std_output, entered,
                   nested, failed, notRtVars>>

NextRt ==
    \/ EnterRuntimeCtx
    \/ \E c \in OutChars : PrintChar(c)
    \/ ExitRuntimeCtx
    \/ RaiseRuntimeCtx
    \/ Catch
    \/ Destroy

(***************************************************************************)
(* impl.py : MossCompilerImpl and the bootstrap of MossRuntimeImpl         *)
(*                                                                         *)
(* A source text is a sequence of tokens.  "F" stands for the text of      *)
(* IMPORT_FUTURE, " " and NL are white space, and each other token is one  *)
(* statement: "K" declares a facade class that subclasses Moss, "Kp" one   *)
(* that also declares a class-level Property x, "Kd" one that declares the *)
(* type hints x, dep and _priv without defaults, "N" a facade class that   *)
(* does not subclass Moss, "B" does not parse and "R" raises when run.     *)
(***************************************************************************)
IMPORT_FUTURE == "F"
Whitespace == {" ", NL}
FacadeTokens == {"K", "Kp", "Kd", "N"}

\* The name compile() is called with, and the two well-known names.
COMPILED_NAME == "__moss__"
MOSS_NAME == "moss"
MOSS_TYPE_NAME == "Moss"

\* A text that is None, told from the empty text.
NoneText == <<None>>

\* The map with no entry.
EmptyMap == <<>>

\* The PyContext of pycontext.py as impl.py uses it: code, module,
\* properties and injections.
BootContext(code_, module_, properties_, injections_) ==
    [code |-> code_, module |-> module_, properties |-> properties_,
     injections |-> injections_]

EmptyBootContext == BootContext(NoneText, None, EmptyMap, EmptyMap)

\* str.lstrip(): leading white space removed.
RECURSIVE lstrip(_)
lstrip(text) ==
    IF text # <<>> /\ Head(text) \in Whitespace THEN lstrip(Tail(text)) ELSE text

\* str.lstrip("\n"): leading line breaks removed.
RECURSIVE lstrip_newlines(_)
lstrip_newlines(text) ==
    IF text # <<>> /\ Head(text) = NL THEN lstrip_newlines(Tail(text)) ELSE text

\* inspect.getsource(self._modules.import_module(name)) for the one module
\* the Contexts refer to.
getsource(name) == <<IMPORT_FUTURE, NL, "Kd">>

\* MossCompilerImpl.pycontext_code (lines 67-75); code.lstrip() on None
\* raises AttributeError.
pycontext_code(ctx) ==
    LET code1 == IF ctx.code = NoneText /\ ctx.module # None
                 THEN getsource(ctx.module) ELSE ctx.code
    IN  IF code1 = NoneText THEN [error |-> "AttributeError", code |-> <<>>]
        ELSE IF ~startswith(lstrip(code1), IMPORT_FUTURE)
        THEN [error |-> None,
              code |-> <<IMPORT_FUTURE, NL, NL>> \o lstrip_newlines(code1)]
        ELSE [error |-> None, code |-> code1]

\* compile(code, modulename, "exec") and exec(compiled, module.__dict__)
\* (lines 54-55): the error they raise, if any.
exec_error(text) ==
    IF \E k \in 1..Len(text) : text[k] = "B" THEN "SyntaxError"
    ELSE IF \E k \in 1..Len(text) : text[k] = "R" THEN "RuntimeError"
    ELSE None

\* The names the statements of text that ran before a failure left in the
\* globals they ran in.
exec_names(text) ==
    IF exec_error(text) = "SyntaxError" THEN EmptyMap
    ELSE [n \in {"__builtins__"} |-> "builtins"]

\* A slip of lines 52-55: the source is run in the predefined bindings
\* themselves, which then keep what the run left in them.
predefined_run_in_place(predefined, text) == exec_names(text) @@ predefined

\* lines 52-53: the predefined bindings are copied into the fresh namespace;
\* the Compiler's own mapping is what it was.
predefined_after_compile(predefined, text) == predefined

\* The facade type the namespace of text declares: that of its last facade
\* statement.
FacadeType(token) ==
    [declared |-> TRUE,
     is_moss |-> token # "N",
     class_props |-> IF token = "Kp" THEN {"x"} ELSE {},
     hints |-> IF token = "Kd" THEN {"x", "dep", "_priv"} ELSE {}]

BaseMoss == [declared |-> FALSE, is_moss |-> TRUE, class_props |-> {}, hints |-> {}]

\* MossRuntime.moss_type(): the type the namespace declares under
\* MOSS_TYPE_NAME, else the base Moss.
moss_type(text) ==
    LET at == {k \in 1..Len(text) : text[k] \in FacadeTokens}
    IN  IF at = {} THEN BaseMoss
        ELSE FacadeType(text[CHOOSE k \in at : \A j \in at : j <= k])

\* A slip of lines 131-132: the subclass test is left out.
facade_check_skipped(type) == FALSE

\* lines 131-132: not issubclass(moss_type, Moss)
facade_check_fails(type) == ~type.is_moss

\* The attributes of an object: the compiled module has its namespace, the
\* library module has v, any other value has none.
AttributesOf(obj, ns) ==
    IF obj = "ns" THEN ns
    ELSE IF obj = "mod:lib" THEN [n \in {"v"} |-> "v2"]
    ELSE EmptyMap

\* helpers.get_module_spec(module, spec): the attribute spec of module.
get_module_spec(obj, spec, ns) ==
    IF spec \in DOMAIN AttributesOf(obj, ns)
    THEN [error |-> None, value |-> AttributesOf(obj, ns)[spec]]
    ELSE [error |-> "AttributeError", value |-> None]

\* Modules.import_module(name)
import_module(name) == [error |-> None, value |-> "mod:" \o name]

\* lines 146-156: the value one Context injection binding resolves to.
resolve_injection(injection, ns) ==
    LET module == IF injection.module = COMPILED_NAME
                  THEN get_module_spec("ns", injection.spec, ns)
                  ELSE import_module(injection.module)
    IN  IF module.error # None THEN module
        ELSE IF injection.spec # "" THEN get_module_spec(module.value, injection.spec, ns)
        ELSE module

\* A slip of lines 143-157: the explicit injections are laid over the
\* Context's.
pending_explicit_last(explicit, resolved) == explicit @@ resolved

\* lines 143-157: a copy of the explicit injections, each Context binding
\* written over it.
pending_injections(explicit, resolved) == resolved @@ explicit

\* A slip of line 161: the test is left out.
injectable_always(name, properties) == TRUE

\* line 161: if name not in pycontext.properties
injectable(name, properties) == name \notin DOMAIN properties

\* Container.get(typehint): the instance bound to the type; an unresolved
\* type is an error.
container_get(bound, name) ==
    IF bound THEN [error |-> None, value |-> "dep:" \o name]
    ELSE [error |-> "InjectionTypeError", value |-> None]

\* A slip of lines 176-178: an unresolved type is caught and None is bound.
bind_dependency_or_none(got) ==
    IF got.error # None THEN [error |-> None, value |-> None] ELSE got

\* lines 176-178: value = self._container.get(typehint); setattr(moss, name, value)
bind_dependency(got) == got

\* name.startswith('_'), for the names a facade type declares.
is_private(name) == name \in {"_priv"}

\* new_moss_stub, lines 90-92: the class-level properties the Context does
\* not hold are defined onto it.
define_class_properties(type, ctx) ==
    [ctx EXCEPT !.properties =
        @ @@ [n \in type.class_props |-> "cprop:" \o n]]

\* MossRuntimeImpl._compile_moss (lines 129-181) on the Runtime's Context
\* ctx, the source text, the namespace ns, the explicit injections and the
\* dependency scope.
compile_moss(ctx, text, ns, explicit, bound) ==
    LET type == moss_type(text)
        raised(err, c, made) ==
            [error |-> err, ctx |-> c, moss |-> EmptyMap, instantiated |-> made,
             registered |-> FALSE, ns |-> ns]
        ctx1 == define_class_properties(type, ctx)
        stub == ctx1.properties
        got == [n \in DOMAIN ctx.injections |-> resolve_injection(ctx.injections[n], ns)]
        resolved == [n \in DOMAIN got |-> got[n].value]
        pending == pending_injections(explicit, resolved)
        injected == [n \in {m \in DOMAIN pending : injectable(m, ctx1.properties)}
                        |-> pending[n]] @@ stub
        wanted == {n \in type.hints : ~is_private(n) /\ n \notin DOMAIN injected}
        deps == [n \in wanted |-> bind_dependency(container_get(bound, n))]
        moss == [n \in wanted |-> deps[n].value] @@ injected
    IN  IF facade_check_fails(type) THEN raised("TypeError", ctx, FALSE)
        ELSE IF \E n \in DOMAIN got : got[n].error # None
        THEN raised("AttributeError", ctx1, TRUE)
        ELSE IF \E n \in wanted : deps[n].error # None
        THEN raised("InjectionTypeError", ctx1, TRUE)
        ELSE [error |-> None, ctx |-> ctx1, moss |-> moss, instantiated |-> TRUE,
              registered |-> TRUE,
              ns |-> [n \in {MOSS_NAME, MOSS_TYPE_NAME} |-> "facade"] @@ ns]

\* The source texts, module references, properties and injection bindings
\* of the Contexts a Compiler is constructed with.
Programs == {NoneText, <<>>, <<IMPORT_FUTURE, NL, "K">>, <<"K">>, <<"Kp">>, <<"Kd">>,
             <<"N">>, <<"B">>, <<"K", NL, "R">>}
ModuleRefs == {None, "lib"}
PropertyMaps == {EmptyMap, [n \in {"x"} |-> "prop:x"]}
InjectionTargets == {[module |-> "lib", spec |-> "v"], [module |-> "lib", spec |-> ""],
                     [module |-> COMPILED_NAME, spec |-> "loc"]}
InjectionMaps == {EmptyMap} \cup {[n \in {"x"} |-> t] : t \in InjectionTargets}
BootContexts == {ctx \in {BootContext(c, m, p, i) : c \in Programs, m \in ModuleRefs,
                                                       p \in PropertyMaps, i \in InjectionMaps} :
                    ctx.module = None \/ ctx.code = NoneText}

\* The Contexts join_context is called with.
JoinArgs == {BootContext(<<"N">>, None, [n \in {"y"} |-> "prop:y"], EmptyMap)}

Refs == 1..3

NoRuntime == [exists |-> FALSE, ctx_ref |-> 0, built |-> FALSE, moss |-> EmptyMap,
              moss_id |-> 0, ns |-> EmptyMap, source_code |-> <<>>]

\* The references held, and the heap with every object nothing refers to
\* dropped.
Held(cref, runtime) == {cref, runtime.ctx_ref} \ {0}
Collected(h, cref, runtime) ==
    [r \in Refs |-> IF r \in Held(cref, runtime) THEN h[r] ELSE EmptyBootContext]
Fresh(cref, runtime) == CHOOSE r \in Refs : r \notin Held(cref, runtime)

\* PyContext.join of pycontext.py: the argument's properties and injection
\* bindings take precedence; source text and module reference are not merged.
boot_join(self, ctx) ==
    [self EXCEPT !.properties = ctx.properties @@ self.properties,
                 !.injections = ctx.injections @@ self.injections]

\* A slip of line 61: the Runtime is handed the Compiler's own Context.
shared_pycontext_ref(cref, fresh) == cref

\* line 61: pycontext=self._pycontext.model_copy(deep=True)
copied_pycontext_ref(cref, fresh) == fresh

\* A slip of lines 124-125: the test of _built is left out.
bootstrap_never_skipped(built) == FALSE

\* lines 124-125: if self._built: return
bootstrap_skipped(built) == built

\* A slip of lines 77-82: the Compiler destroys its container.
scopes_destroyed(sc) == [sc EXCEPT !.child = "destroyed"]

\* MossCompilerImpl.destroy (lines 77-82) deletes the attribute _container
\* and calls nothing on the container.
scopes_after_destroy(sc) == sc

Snapshot ==
    [predefined |-> c_predefined, injections |-> c_injections,
     cctx |-> IF c_ref = 0 THEN EmptyBootContext ELSE heap[c_ref],
     rt |-> rt,
     rctx |-> IF rt.ctx_ref = 0 THEN EmptyBootContext ELSE heap[rt.ctx_ref],
     scopes |-> scopes]

BootOp(op, error, instantiated, registered) ==
    [op |-> op, error |-> error, instantiated |-> instantiated, registered |-> registered]

\* The state after MossCompilerImpl.__init__ (lines 22-30) with a Context.
BootIdle ==
    /\ heap = [r \in Refs |-> EmptyBootContext]
    /\ c_ref = 1
    /\ c_predefined = [n \in {"__import__"} |-> "ImportWrapper"]
    /\ c_injections = EmptyMap
    /\ c_alive = TRUE
    /\ scopes = [parent |-> "live", child |-> "live"]
    /\ resolvable = TRUE
    /\ rt = NoRuntime
    /\ b_last = BootOp("none", None, FALSE, FALSE)
    /\ b_pre = [predefined |-> c_predefined, injections |-> c_injections,
                cctx |-> EmptyBootContext, rt |-> NoRuntime, rctx |-> EmptyBootContext,
                scopes |-> scopes]

CompilerConstructed ==
    /\ \E ctx \in BootContexts : heap = [r \in Refs |-> IF r = 1 THEN ctx ELSE EmptyBootContext]
    /\ c_ref = 1
    /\ c_predefined = [n \in {"__import__"} |-> "ImportWrapper"]
    /\ c_injections = EmptyMap
    /\ c_alive = TRUE
    /\ scopes = [parent |-> "live", child |-> "live"]
    /\ resolvable \in BOOLEAN
    /\ rt = NoRuntime
    /\ b_last = BootOp("none", None, FALSE, FALSE)
    /\ b_pre = [predefined |-> c_predefined, injections |-> c_injections,
                cctx |-> heap[1], rt |-> NoRuntime, rctx |-> EmptyBootContext,
                scopes |-> scopes]

\* MossCompilerImpl.injects (lines 46-48)
Injects(n, v) ==
    /\ c_alive
    /\ c_injections' = [m \in {n} |-> v] @@ c_injections
    /\ b_last' = BootOp("injects", None, FALSE, FALSE)
    /\ b_pre' = Snapshot
    /\ UNCHANGED <<heap, c_ref, c_predefined, c_alive, scopes, resolvable, rt, notBootVars>>

\* MossCompilerImpl.with_locals (lines 42-44)
WithLocals(n, v) ==
    /\ c_alive
    /\ c_predefined' = [m \in {n} |-> v] @@ c_predefined
    /\ b_last' = BootOp("with_locals", None, FALSE, FALSE)
    /\ b_pre' = Snapshot
    /\ UNCHANGED <<heap, c_ref, c_injections, c_alive, scopes, resolvable, rt, notBootVars>>

\* MossCompilerImpl.join_context (lines 38-40): the Compiler refers to the
\* new Context join returns.
CompilerJoinContext(ctx) ==
    /\ c_alive
    /\ LET new == Fresh(c_ref, rt)
       IN  /\ c_ref' = new
           /\ heap' = Collected([heap EXCEPT ![new] = boot_join(heap[c_ref], ctx)], new, rt)
    /\ b_last' = BootOp("join_context", None, FALSE, FALSE)
    /\ b_pre' = Snapshot
    /\ UNCHANGED <<c_predefined, c_injections, c_alive, scopes, resolvable, rt, notBootVars>>

\* MossCompiler.compile: _compile (lines 50-56), then _new_runtime (lines
\* 58-65) and with it MossRuntimeImpl.__init__ and the bootstrap.
Compile ==
    /\ c_alive
    /\ b_pre' = Snapshot
    /\ LET source == pycontext_code(heap[c_ref])
           error == IF source.error # None THEN source.error ELSE exec_error(source.code)
       IN  IF error # None
           THEN /\ c_predefined' = IF source.error # None THEN c_predefined
                                   ELSE predefined_after_compile(c_predefined, source.code)
                /\ rt' = NoRuntime
                /\ heap' = Collected(heap, c_ref, NoRuntime)
                /\ b_last' = BootOp("compile", error, FALSE, FALSE)
           ELSE LET ref == copied_pycontext_ref(c_ref, Fresh(c_ref, NoRuntime))
                    boot == compile_moss(heap[c_ref], source.code, c_predefined,
                                         c_injections, resolvable)
                    made == IF boot.error # None THEN NoRuntime
                            ELSE [exists |-> TRUE, ctx_ref |-> ref, built |-> TRUE,
                                  moss |-> boot.moss, moss_id |-> 1, ns |-> boot.ns,
                                  source_code |-> source.code]
                IN  /\ c_predefined' = predefined_after_compile(c_predefined, source.code)
                    /\ rt' = made
                    /\ heap' = Collected([heap EXCEPT ![ref] = boot.ctx], c_ref, made)
                    /\ b_last' = BootOp("compile", boot.error, boot.instantiated,
                                        boot.registered)
    /\ UNCHANGED <<c_ref, c_injections, c_alive, scopes, resolvable, notBootVars>>

\* MossRuntimeImpl._bootstrap_moss (lines 123-127), called on the Runtime
\* that compile() returned.
Bootstrap ==
    /\ rt.exists
    /\ b_pre' = Snapshot
    /\ IF bootstrap_skipped(rt.built)
       THEN /\ b_last' = BootOp("bootstrap", None, FALSE, FALSE)
            /\ UNCHANGED <<heap, rt>>
       ELSE LET boot == compile_moss(heap[rt.ctx_ref], rt.source_code, rt.ns,
                                     c_injections, resolvable)
            IN  /\ b_last' = BootOp("bootstrap", boot.error, boot.instantiated,
                                    boot.registered)
                /\ heap' = [heap EXCEPT ![rt.ctx_ref] = boot.ctx]
                /\ rt' = IF boot.error # None THEN [rt EXCEPT !.built = TRUE]
                         ELSE [rt EXCEPT !.built = TRUE, !.moss = boot.moss,
                                         !.moss_id = IF @ < 2 THEN @ + 1 ELSE @,
                                         !.ns = boot.ns]
    /\ UNCHANGED <<c_ref, c_predefined, c_injections, c_alive, scopes, resolvable,
                   notBootVars>>

\* The caller defines a property on the Context dump_context() returns
\* (lines 198-199).
DumpContextDefine ==
    /\ rt.exists
    /\ b_pre' = Snapshot
    /\ heap' = [heap EXCEPT ![rt.ctx_ref].properties = [n \in {"y"} |-> "prop:y2"] @@ @]
    /\ b_last' = BootOp("dump_context_define", None, FALSE, FALSE)
    /\ UNCHANGED <<c_ref, c_predefined, c_injections, c_alive, scopes, resolvable, rt,
                   notBootVars>>

\* MossCompilerImpl.destroy (lines 77-82)
CompilerDestroy ==
    /\ c_alive
    /\ b_pre' = Snapshot
    /\ c_alive' = FALSE
    /\ c_ref' = 0
    /\ c_predefined' = EmptyMap
    /\ scopes' = scopes_after_destroy(scopes)
    /\ heap' = Collected(heap, 0, rt)
    /\ b_last' = BootOp("compiler_destroy", None, FALSE, FALSE)
    /\ UNCHANGED <<c_injections, resolvable, rt, notBootVars>>

\* The scope a Runtime holds: _new_runtime hands it the Compiler's own
\* container (line 60), the child of the container the Compiler was given.
runtime_scope == "child"

\* MossRuntimeImpl.destroy (lines 235-242): self._container.destroy(), and
\* the caller lets go of the Runtime.
RuntimeDestroy ==
    /\ rt.exists
    /\ b_pre' = Snapshot
    /\ scopes' = [scopes EXCEPT ![runtime_scope] = "destroyed"]
    /\ rt' = NoRuntime
    /\ heap' = Collected(heap, c_ref, NoRuntime)
    /\ b_last' = BootOp("runtime_destroy", None, FALSE, FALSE)
    /\ UNCHANGED <<c_ref, c_predefined, c_injections, c_alive, resolvable, notBootVars>>

NextBoot ==
    \/ Injects("x", "v1")
    \/ WithLocals("loc", "l1")
    \/ \E ctx \in JoinArgs : CompilerJoinContext(ctx)
    \/ Compile
    \/ Bootstrap
    \/ DumpContextDefine
    \/ CompilerDestroy
    \/ RuntimeDestroy

(***************************************************************************)
(* prompts.py : default_reflect_local_value_prompt                         *)
(*                                                                         *)
(* A prompt is a sequence of tokens: NL is a line break, QUOTES the three  *)
(* double quotes, and every other token a piece of text without either.    *)
(* A value is a record of what the function reads from it: its kind, the   *)
(* output of its __prompt__ hook and of its class-level hook (NoneText     *)
(* when it has none), whether it is abstract, its __module__, its          *)
(* __name__, its source and its textual form.  In a token ' stands for the  *)
(* backquote of the source.                                                *)
(***************************************************************************)
QUOTES == "\"\"\""
ESCAPED_QUOTES == "\\\"\\\"\\\""
INDENT == "    "

HookOutputs == {NoneText, <<>>, <<"h">>, <<"h", NL, QUOTES>>}

Value(kind_, hook_, class_hook_, abstract_, module_) ==
    [kind |-> kind_, hook |-> hook_, class_hook |-> class_hook_, abstract |-> abstract_,
     module |-> module_, name |-> "m", source |-> <<"class A(ABC):", NL, "    ...">>,
     text |-> "typing.List[int]"]

Values ==
    {Value("typing", NoneText, NoneText, FALSE, m) : m \in {"typing", "lib"}}
    \cup {Value("class", h, c, a, "lib") :
            h \in {NoneText, <<"h">>}, c \in HookOutputs, a \in BOOLEAN}
    \cup {Value(k, h, NoneText, FALSE, "lib") :
            k \in {"function", "module", "other"}, h \in HookOutputs}

Flags == [cls : BOOLEAN, module : BOOLEAN, typing : BOOLEAN, func : BOOLEAN,
          other : BOOLEAN]

\* utils.is_typing(value)
is_typing(value) == value.kind = "typing"

\* utils.escape_string_quotes(prompt, '"""'): each quote mark is escaped.
escape_string_quotes(text, quotes) ==
    [k \in 1..Len(text) |-> IF text[k] = quotes THEN ESCAPED_QUOTES ELSE text[k]]

\* utils.add_source_indent(parsed, indent=4): each line is indented.
add_source_indent(text) ==
    LET pieces == split(text)
    IN  join_lines([k \in 1..Len(pieces) |-> <<INDENT>> \o pieces[k]])

\* utils.get_callable_definition(value, name): the signature line of the
\* function, without its body.
get_callable_definition(value, name) == <<"def " \o name \o "(...):">>

\* get_magic_prompt (lines 260-268): the output of the hook bound under
\* PROMPT_MAGIC_ATTR, None without one.
get_magic_prompt(value) == value.hook

\* get_class_magic_prompt (lines 271-279): the output of the class-level
\* hook, None without one.
get_class_magic_prompt(value) == value.class_hook

\* The truth value of an Optional[str]: neither None nor empty.
truthy(text) == text # NoneText /\ text # <<>>

\* A slip of lines 226-234: the hook's output is returned as it is.
module_hook_output(name, value, prompt) == prompt

\* lines 226-234: the block a module's hook output is wrapped in.
module_block(name, value, prompt) ==
    <<NL, "# information of '" \o name \o "' (module '" \o value.name \o "') :", NL,
      QUOTES, NL>>
    \o add_source_indent(escape_string_quotes(prompt, QUOTES))
    \o <<NL, QUOTES, NL, "# information of '" \o name \o "' over.", NL>>

\* lines 243-249: the block any other value's hook output is wrapped in.
other_block(name, prompt) ==
    <<NL, "# value of '" \o name \o "':", NL, QUOTES, NL>>
    \o escape_string_quotes(prompt, QUOTES)
    \o <<NL, QUOTES, NL, "# value of '" \o name \o "' over.", NL>>

\* default_reflect_local_value_prompt (lines 172-251); NoneText is None.
default_reflect_local_value_prompt(name, value, flags) ==
    IF is_typing(value)
    THEN IF ~flags.typing THEN NoneText
         ELSE IF value.module = "typing" THEN NoneText
         ELSE <<name \o " = " \o value.text>>
    ELSE IF value.kind = "class"
    THEN IF ~flags.cls THEN NoneText
         ELSE IF get_class_magic_prompt(value) # NoneText THEN get_class_magic_prompt(value)
         ELSE IF value.abstract THEN value.source
         ELSE NoneText
    ELSE IF value.kind = "function"
    THEN IF ~flags.func THEN NoneText
         ELSE IF get_magic_prompt(value) # NoneText THEN get_magic_prompt(value)
         ELSE get_callable_definition(value, name)
    ELSE IF value.kind = "module"
    THEN IF ~flags.module THEN NoneText
         ELSE IF truthy(get_magic_prompt(value))
         THEN module_block(name, value, get_magic_prompt(value))
         ELSE NoneText
    ELSE IF ~flags.other THEN NoneText
         ELSE IF truthy(get_magic_prompt(value))
         THEN other_block(name, get_magic_prompt(value))
         ELSE NoneText

PromptIdle ==
    /\ p_name = "a"
    /\ p_value = Value("other", NoneText, NoneText, FALSE, "lib")
    /\ p_flags = [cls |-> FALSE, module |-> FALSE, typing |-> FALSE, func |-> FALSE,
                  other |-> FALSE]
    /\ p_called = FALSE
    /\ p_prompt = NoneText

\* The arguments of one call of default_reflect_local_value_prompt.
PromptCalled ==
    /\ p_name = "a"
    /\ p_value \in Values
    /\ p_flags \in Flags
    /\ p_called = FALSE
    /\ p_prompt = NoneText

ReflectValue ==
    /\ ~p_called
    /\ p_called' = TRUE
    /\ p_prompt' = default_reflect_local_value_prompt(p_name, p_value, p_flags)
    /\ UNCHANGED <<p_name, p_value, p_flags, notPromptVars>>

NextPrompt == ReflectValue

(***************************************************************************)
(* impl.py : MossCompilerImpl.pycontext_code on every source text          *)
(*                                                                         *)
(* "#" is a comment line, which may stand before the prelude.              *)
(***************************************************************************)
SourceTokens == {IMPORT_FUTURE, NL, " ", "#", "K"}

\* The length of the source texts, and the number of calls made on one.
MaxSourceLen == 3
MaxResolves == 2

\* str.count(IMPORT_FUTURE)
count(text) == Cardinality({k \in 1..Len(text) : text[k] = IMPORT_FUTURE})

RECURSIVE SourcesUpTo(_)
SourcesUpTo(n) ==
    IF n = 0 THEN {<<>>}
    ELSE LET shorter == SourcesUpTo(n - 1)
         IN  shorter \cup {Append(t, c) : t \in {u \in shorter : Len(u) = n - 1},
                                          c \in SourceTokens}

\* The source texts that hold the prelude at most once.
SourceTexts == {t \in SourcesUpTo(MaxSourceLen) : count(t) <= 1}

SourceIdle ==
    /\ s_code = <<>>
    /\ s_results = <<>>

SourceGiven ==
    /\ s_code \in SourceTexts
    /\ s_results = <<>>

\* pycontext_code() of a Compiler whose Context holds the text: the source
\* the first time, the text the call before returned after that.
ResolveSource ==
    /\ Len(s_results) < MaxResolves
    /\ LET text == IF s_results = <<>> THEN s_code ELSE s_results[Len(s_results)]
       IN  s_results' = Append(s_results,
                               pycontext_code(BootContext(text, None, EmptyMap, EmptyMap)).code)
    /\ UNCHANGED <<s_code, notSourceVars>>

NextSource == ResolveSource

(***************************************************************************)
(* prompts.py : reflect_module_attr and reflect_module_locals              *)
(***************************************************************************)
\* An Optional[Set[str]] that is None.
NoneSet == {None}

\* The truth value of an Optional[Set[str]]: neither None nor empty.
truthy_set(set) == set # NoneSet /\ set # {}

\* The module the namespace being rendered belongs to.
CurrentModule == "cur"

\* str.startswith for the module names the values come from.
ModulePrefixes ==
    [lib |-> {"l", "lib"}, pkg |-> {"p", "pkg"}, typing |-> {"t", "typing"},
     builtins |-> {"b", "builtins"}, cur |-> {"c", "cur"}]

str_startswith(s, prefix) == prefix \in ModulePrefixes[s]

\* utils.get_modulename(value): the module the value is declared in, None
\* when it has none.
get_modulename(value) == value.module

\* inspect.isbuiltin(value)
isbuiltin(value) == value.kind = "builtin"

\* The defaults of the five category flags (lines 66-70 and 124-128).
DefaultFlags == [cls |-> TRUE, typing |-> TRUE, func |-> TRUE, module |-> FALSE,
                 other |-> TRUE]

\* The keywords of the call at line 151: other=True, the rest at their
\* default False.
LocalFlags == [cls |-> FALSE, module |-> FALSE, typing |-> FALSE, func |-> FALSE,
               other |-> TRUE]

\* reflect_module_attr (lines 116-169)
reflect_module_attr(name, value, current_module, includes, excludes, includes_module_prefixes, excludes_module_prefixes, flags) ==
    IF truthy_set(excludes) /\ name \in excludes THEN NoneText
    ELSE IF includes # NoneSet /\ name \notin includes THEN NoneText
    ELSE IF is_private(name) /\ (truthy_set(includes) /\ name \notin includes) THEN NoneText
    ELSE IF isbuiltin(value) THEN NoneText
    ELSE IF get_modulename(value) = None THEN NoneText
    ELSE IF get_modulename(value) = current_module
    THEN default_reflect_local_value_prompt(name, value, LocalFlags)
    ELSE IF truthy_set(excludes_module_prefixes)
    THEN IF \E prefix \in excludes_module_prefixes :
                str_startswith(get_modulename(value), prefix)
         THEN NoneText
         ELSE default_reflect_local_value_prompt(name, value, flags)
    ELSE IF truthy_set(includes_module_prefixes)
            /\ ~\E prefix \in includes_module_prefixes :
                    str_startswith(get_modulename(value), prefix)
    THEN NoneText
    ELSE default_reflect_local_value_prompt(name, value, flags)

\* The call at lines 108-111: the flags are passed by position, _cls,
\* _module, _func, _other, to the parameters _cls, _typing, _func, _module;
\* the parameter _other keeps its default.
positional_flags(flags) ==
    [cls |-> flags.cls, typing |-> flags.module, func |-> flags.func,
     module |-> flags.other, other |-> DefaultFlags.other]

\* reflect_module_locals (lines 58-113) over the entries of local_values in
\* their order: the (name, prompt) pairs it yields.
RECURSIVE reflect_module_locals(_, _, _, _, _, _, _)
reflect_module_locals(modulename, local_values, includes, excludes, includes_module_prefixes, excludes_module_prefixes, flags) ==
    IF local_values = <<>> THEN <<>>
    ELSE LET entry == Head(local_values)
             prompt == reflect_module_attr(entry.name, entry.value, modulename, includes,
                                           excludes, includes_module_prefixes,
                                           excludes_module_prefixes, positional_flags(flags))
             rest == reflect_module_locals(modulename, Tail(local_values), includes, excludes,
                                           includes_module_prefixes,
                                           excludes_module_prefixes, flags)
         IN  IF prompt # NoneText THEN <<[name |-> entry.name, prompt |-> prompt]>> \o rest
             ELSE rest

\* The values of a namespace, and the arguments of the calls.
ReflectHooks == {NoneText, <<"h">>}
ReflectValues ==
    {Value("typing", NoneText, NoneText, FALSE, m) : m \in {"typing", "lib"}}
    \cup {Value("class", NoneText, c, a, m) :
            c \in ReflectHooks, a \in BOOLEAN, m \in {CurrentModule, "lib", "pkg"}}
    \cup {Value("function", h, NoneText, FALSE, m) :
            h \in ReflectHooks, m \in {CurrentModule, "lib", "pkg"}}
    \cup {Value("module", h, NoneText, FALSE, m) : h \in ReflectHooks, m \in {"lib", "pkg"}}
    \cup {Value("other", h, NoneText, FALSE, m) :
            h \in ReflectHooks, m \in {CurrentModule, "lib", "pkg", None}}
    \cup {Value("builtin", NoneText, NoneText, FALSE, "builtins")}
ReflectNames == {"a", "_priv"}
IncludeSets == {NoneSet, {"a"}, {"_priv"}}
ExcludeSets == {NoneSet, {"a"}}
IncludePrefixSets == {NoneSet, {"l"}}
ExcludePrefixSets == {NoneSet, {"p"}, {"x"}}
ReflectFlags == {DefaultFlags, [DefaultFlags EXCEPT !.module = TRUE],
                 [DefaultFlags EXCEPT !.typing = FALSE, !.other = FALSE]}

ReflectIdle ==
    /\ r_name = "a"
    /\ r_value = Value("other", NoneText, NoneText, FALSE, "lib")
    /\ r_includes = NoneSet
    /\ r_excludes = NoneSet
    /\ r_includes_module_prefixes = NoneSet
    /\ r_excludes_module_prefixes = NoneSet
    /\ r_flags = DefaultFlags
    /\ r_via = "none"
    /\ r_prompt = NoneText
    /\ r_yielded = <<>>

ReflectGiven ==
    /\ r_name \in ReflectNames
    /\ r_value \in ReflectValues
    /\ r_includes \in IncludeSets
    /\ r_excludes \in ExcludeSets
    /\ r_includes_module_prefixes \in IncludePrefixSets
    /\ r_excludes_module_prefixes \in ExcludePrefixSets
    /\ r_flags \in ReflectFlags
    /\ r_via = "none"
    /\ r_prompt = NoneText
    /\ r_yielded = <<>>

\* reflect_module_attr called with every flag given by keyword.
ReflectAttr ==
    /\ r_via = "none"
    /\ r_via' = "attr"
    /\ r_prompt' = reflect_module_attr(r_name, r_value, CurrentModule, r_includes, r_excludes,
                                       r_includes_module_prefixes,
                                       r_excludes_module_prefixes, r_flags)
    /\ UNCHANGED <<r_name, r_value, r_includes, r_excludes, r_includes_module_prefixes,
                   r_excludes_module_prefixes, r_flags, r_yielded, notReflectVars>>

\* reflect_module_locals called on the namespace that holds the one value.
ReflectLocals ==
    /\ r_via = "none"
    /\ r_via' = "locals"
    /\ r_yielded' = reflect_module_locals(CurrentModule,
                                          <<[name |-> r_name, value |-> r_value]>>,
                                          r_includes, r_excludes,
                                          r_includes_module_prefixes,
                                          r_excludes_module_prefixes, r_flags)
    /\ UNCHANGED <<r_name, r_value, r_includes, r_excludes, r_includes_module_prefixes,
                   r_excludes_module_prefixes, r_flags, r_prompt, notReflectVars>>

NextReflect ==
    \/ ReflectAttr
    \/ ReflectLocals

(***************************************************************************)
(* prompts.py : join_prompt_lines and compile_attr_prompts                 *)
(***************************************************************************)
\* str.rstrip(): trailing white space removed.
RECURSIVE rstrip(_)
rstrip(text) ==
    IF text # <<>> /\ text[Len(text)] \in Whitespace
    THEN rstrip(SubSeq(text, 1, Len(text) - 1)) ELSE text

\* str.strip()
strip(text) == lstrip(rstrip(text))

\* '\n\n\n'.join(result)
RECURSIVE join_three_newlines(_)
join_three_newlines(result) ==
    IF result = <<>> THEN <<>>
    ELSE IF Len(result) = 1 THEN result[1]
    ELSE result[1] \o <<NL, NL, NL>> \o join_three_newlines(Tail(result))

\* join_prompt_lines (lines 282-291): a prompt is kept when prompt.rstrip()
\* is not empty, and what is kept is the prompt itself.
join_prompt_lines(prompts) ==
    LET kept(prompt) == rstrip(prompt) # <<>>
    IN  join_three_newlines(SelectSeq(prompts, kept))

\* compile_attr_prompts (lines 315-327) on (name, prompt) pairs
compile_attr_prompts(attr_prompts) ==
    LET lines_ == [k \in 1..Len(attr_prompts) |-> strip(attr_prompts[k].prompt)]
        kept(line) == line # <<>>
    IN  join_prompt_lines(SelectSeq(lines_, kept))

\* The fragments aggregated, and how many of them.
Fragments == {<<>>, <<" ">>, <<"a">>, <<"a", " ">>, <<" ", "b">>, <<"b", NL>>}
MaxFragments == 3

RECURSIVE FragmentsUpTo(_)
FragmentsUpTo(n) ==
    IF n = 0 THEN {<<>>}
    ELSE LET shorter == FragmentsUpTo(n - 1)
         IN  shorter \cup {Append(t, f) : t \in {u \in shorter : Len(u) = n - 1},
                                          f \in Fragments}

AggregateIdle ==
    /\ a_prompts = <<>>
    /\ a_via = "none"
    /\ a_result = <<>>

AggregateGiven ==
    /\ a_prompts \in FragmentsUpTo(MaxFragments)
    /\ a_via = "none"
    /\ a_result = <<>>

\* join_prompt_lines(*a_prompts)
JoinPromptLines ==
    /\ a_via = "none"
    /\ a_via' = "join"
    /\ a_result' = join_prompt_lines(a_prompts)
    /\ UNCHANGED <<a_prompts, notAggregateVars>>

\* compile_attr_prompts on the fragments, each under a name of its own
CompileAttrPrompts ==
    /\ a_via = "none"
    /\ a_via' = "compile"
    /\ a_result' = compile_attr_prompts([k \in 1..Len(a_prompts) |->
                                            [name |-> k, prompt |-> a_prompts[k]]])
    /\ UNCHANGED <<a_prompts, notAggregateVars>>

NextAggregate ==
    \/ JoinPromptLines
    \/ CompileAttrPrompts

(***************************************************************************)
(* threads.py : Thread.update                                              *)
(***************************************************************************)
\* The number of Thread objects, and the length of an appending list.
MaxThreads == 4
MaxAppending == 3

\* The arguments of update: messages, and pycontext as <<>> for None or as
\* the one Context given.
MessageArgs == {<<>>, <<"m1">>, <<"m2">>}
PyContextArgs ==
    {<<>>, <<PyContext([imports |-> <<[module |-> "m", spec |-> "s", alias |-> None]>>])>>}

\* self.model_copy() (line 58) is a shallow copy: the new Thread's appending
\* is the list object the receiver's appending is.
model_copy(thread, fresh) == thread

NoUpdate == [op |-> "none", self |-> 1, appending |-> <<>>, pycontext |-> EmptyContext]

ThreadIdle ==
    /\ t_lists = [r \in 1..MaxThreads |-> <<>>]
    /\ t_threads = <<[appending |-> 1, pycontext |-> EmptyContext]>>
    /\ t_last = NoUpdate

\* Thread.update (lines 57-64) on the Thread t_threads[i]
Update(i, messages, pycontext) ==
    /\ Len(t_threads) < MaxThreads
    /\ Len(t_lists[t_threads[i].appending]) + Len(messages) <= MaxAppending
    /\ LET self == t_threads[i]
           thread == model_copy(self, Len(t_threads) + 1)
           joined == IF pycontext # <<>>
                     THEN [thread EXCEPT !.pycontext = join(thread.pycontext, pycontext[1])]
                     ELSE thread
       IN  /\ t_lists' = IF messages # <<>>
                         THEN [t_lists EXCEPT ![thread.appending] = @ \o messages]
                         ELSE t_lists
           /\ t_threads' = Append(t_threads, joined)
           /\ t_last' = [op |-> "update", self |-> i,
                         appending |-> t_lists[self.appending],
                         pycontext |-> self.pycontext]
    /\ UNCHANGED notThreadVars

NextThread ==
    \E i \in 1..Len(t_threads), messages \in MessageArgs, pycontext \in PyContextArgs :
        Update(i, messages, pycontext)

AddImport(h, imp) ==
    /\ nops < MaxOps
    /\ nops' = nops + 1
    /\ ctxs' = [ctxs EXCEPT ![h] = add_import(ctxs[h], imp)]
    /\ last' = [NoOp EXCEPT !.op = "add_import", !.tgt = h, !.imp = imp]
    /\ UNCHANGED notCtxVars

AddDefine(h, d) ==
    /\ nops < MaxOps
    /\ nops' = nops + 1
    /\ ctxs' = [ctxs EXCEPT ![h] = add_define(ctxs[h], d)]
    /\ last' = [NoOp EXCEPT !.op = "add_define", !.tgt = h, !.def = d]
    /\ UNCHANGED notCtxVars

\* holder h takes h.join(o), as join_context and Thread.update do.
JoinContext(h, o) ==
    /\ nops < MaxOps
    /\ nops' = nops + 1
    /\ ctxs' = [ctxs EXCEPT ![h] = join(ctxs[h], ctxs[o])]
    /\ last' = [NoOp EXCEPT !.op = "join", !.tgt = h, !.arg = o, !.pre = ctxs[h]]
    /\ UNCHANGED notCtxVars

NextCtx ==
    \/ \E h \in Holders, imp \in Import : AddImport(h, imp)
    \/ \E h \in Holders, d \in Define : AddDefine(h, d)
    \/ \E h \in Holders, o \in Holders : JoinContext(h, o)

\* The Context model: add_import, add_define and join on two Contexts.
Init ==
    CtxIdle /\ FilterIdle /\ RtIdle /\ BootIdle /\ PromptIdle /\ SourceIdle
    /\ ReflectIdle /\ AggregateIdle /\ ThreadIdle

Spec == Init /\ [][NextCtx]_vars

\* The hidden-block filter run on every source text of up to MaxCodeLen characters.
InitFilter ==
    CtxIdle /\ FilterCalled /\ RtIdle /\ BootIdle /\ PromptIdle /\ SourceIdle
    /\ ReflectIdle /\ AggregateIdle /\ ThreadIdle

SpecFilter == InitFilter /\ [][NextFilter]_vars

\* One Runtime after construction: runtime_ctx() regions, prints and destroy().
SpecRt == Init /\ [][NextRt]_vars

\* One Compiler constructed with a Context, the Runtime it compiles and the
\* bootstrap of that Runtime.
InitBoot ==
    CtxIdle /\ FilterIdle /\ RtIdle /\ CompilerConstructed /\ PromptIdle
    /\ SourceIdle /\ ReflectIdle /\ AggregateIdle /\ ThreadIdle

SpecBoot == InitBoot /\ [][NextBoot]_vars

\* One call of default_reflect_local_value_prompt.
InitPrompt ==
    CtxIdle /\ FilterIdle /\ RtIdle /\ BootIdle /\ PromptCalled /\ SourceIdle
    /\ ReflectIdle /\ AggregateIdle /\ ThreadIdle

SpecPrompt == InitPrompt /\ [][NextPrompt]_vars

\* pycontext_code on every source text of up to MaxSourceLen tokens.
InitSource ==
    CtxIdle /\ FilterIdle /\ RtIdle /\ BootIdle /\ PromptIdle /\ SourceGiven
    /\ ReflectIdle /\ AggregateIdle /\ ThreadIdle

SpecSource == InitSource /\ [][NextSource]_vars

\* One call of reflect_module_attr or of reflect_module_locals.
InitReflect ==
    CtxIdle /\ FilterIdle /\ RtIdle /\ BootIdle /\ PromptIdle /\ SourceIdle
    /\ ReflectGiven /\ AggregateIdle /\ ThreadIdle

SpecReflect == InitReflect /\ [][NextReflect]_vars

\* One call of join_prompt_lines or of compile_attr_prompts.
InitAggregate ==
    CtxIdle /\ FilterIdle /\ RtIdle /\ BootIdle /\ PromptIdle /\ SourceIdle
    /\ ReflectIdle /\ AggregateGiven /\ ThreadIdle

SpecAggregate == InitAggregate /\ [][NextAggregate]_vars

\* One Thread and the Threads its update calls return.
SpecThread == Init /\ [][NextThread]_vars

(***************************************************************************)
(* The Context claims                                                      *)
(***************************************************************************)
Range(seq) == {seq[k] : k \in 1..Len(seq)}

ImportKeys(c) == {get_import_path(i) : i \in Range(c.imports)}
DefineKeys(c) == {d.name : d \in Range(c.defines)}
ImportsAt(c, path) == {i \in Range(c.imports) : get_import_path(i) = path}
DefinesAt(c, name) == {d \in Range(c.defines) : d.name = name}

\* The receiver, the argument and the result of the join that was made last.
JoinSelf == last.pre
JoinArg == IF last.arg = last.tgt THEN last.pre ELSE ctxs[last.arg]
JoinResult == ctxs[last.tgt]

\* C1: A.join(B) is right-biased: for every import path and every define
\* name that A and B both hold, the result holds B's entry, so the result's
\* defines contain B's defines.
C1_JoinRightBiased ==
    last.op = "join" =>
        /\ \A p \in ImportKeys(JoinSelf) \cap ImportKeys(JoinArg) :
              /\ ImportsAt(JoinResult, p) # {}
              /\ ImportsAt(JoinResult, p) \subseteq ImportsAt(JoinArg, p)
        /\ \A n \in DefineKeys(JoinSelf) \cap DefineKeys(JoinArg) :
              /\ DefinesAt(JoinResult, n) # {}
              /\ DefinesAt(JoinResult, n) \subseteq DefinesAt(JoinArg, n)
        /\ Range(JoinArg.defines) \subseteq Range(JoinResult.defines)

\* C2: A.join(A) equals A by content: it holds the same imports and the
\* same defines as A (the order of the lists is not part of the content).
C2_JoinSelfIsIdentity ==
    (last.op = "join" /\ last.arg = last.tgt) =>
        /\ Range(JoinResult.imports) = Range(JoinSelf.imports)
        /\ Range(JoinResult.defines) = Range(JoinSelf.defines)
        /\ Len(JoinResult.imports) = Len(JoinSelf.imports)
        /\ Len(JoinResult.defines) = Len(JoinSelf.defines)

\* C3: after add_import(i) exactly one entry has i's identity key
\* module+spec and that entry is i; after add_define(d) exactly one entry is
\* named d.name and that entry is d.
C3_AddReplacesByIdentity ==
    /\ last.op = "add_import" =>
          LET imports == ctxs[last.tgt].imports
              at == {k \in 1..Len(imports) :
                        get_import_path(imports[k]) = get_import_path(last.imp)}
          IN  Cardinality(at) = 1 /\ \A k \in at : imports[k] = last.imp
    /\ last.op = "add_define" =>
          LET defines == ctxs[last.tgt].defines
              at == {k \in 1..Len(defines) : defines[k].name = last.def.name}
          IN  Cardinality(at) = 1 /\ \A k \in at : defines[k] = last.def

\* C4: in every Context reached by add_import, add_define and join no two
\* imports share an identity key (module+spec) and no two defines share a name.
C4_NoDuplicateKeys ==
    \A h \in Holders :
        /\ \A j, k \in 1..Len(ctxs[h].imports) :
              get_import_path(ctxs[h].imports[j]) = get_import_path(ctxs[h].imports[k])
                  => j = k
        /\ \A j, k \in 1..Len(ctxs[h].defines) :
              ctxs[h].defines[j].name = ctxs[h].defines[k].name => j = k

(***************************************************************************)
(* The source filter claims                                                *)
(***************************************************************************)
\* The scan the specification describes: a start-marker line hides from
\* itself on, an end-marker line is still hidden and the line after it is
\* visible again.
RECURSIVE VisibleLines(_, _)
VisibleLines(ls, hidden) ==
    IF ls = <<>> THEN <<>>
    ELSE LET line == Head(ls)
             h == hidden \/ startswith(line, MOSS_HIDDEN_MARK)
         IN  (IF h THEN <<>> ELSE <<line>>)
             \o VisibleLines(Tail(ls), h /\ ~startswith(line, MOSS_HIDDEN_UNMARK))

\* C5: pycontext_code(model_visible=True) removes exactly the lines from each
\* start marker through its end marker, both included; the lines before the
\* start marker and those after the end marker are emitted.
C5_HiddenBlocksRemovedExactly ==
    (fpc = "done" /\ model_visible) => output = join_lines(VisibleLines(split(code), FALSE))

\* C6: pycontext_code(model_visible=False) returns the source unchanged,
\* whatever markers it holds.
C6_NotModelVisibleUnchanged ==
    (fpc = "done" /\ ~model_visible) => output = code

\* C6's case: an unfiltered call has returned on a text of several lines that
\* holds a start marker line followed by further lines.
C6_Witness ==
    /\ fpc = "done"
    /\ ~model_visible
    /\ Len(lines) >= 3
    /\ startswith(lines[1], MOSS_HIDDEN_MARK)
    /\ startswith(lines[2], MOSS_HIDDEN_UNMARK)
    /\ output = code

(***************************************************************************)
(* The Runtime claims                                                      *)
(***************************************************************************)
IsSuffix(text, of) ==
    Len(text) <= Len(of) /\ SubSeq(of, Len(of) - Len(text) + 1, Len(of)) = text

\* The regions that were left, in entry order, while no region was nested.
ClosedBuffers == SubSeq(buffers, 1, Len(buffers) - Len(frames))

\* C7: after sequential runtime_ctx() regions that exit normally,
\* dump_std_output() is the concatenation, in entry order, of the text
\* captured in each region.
C7_SequentialRegionsAccumulate ==
    (~nested /\ ~failed) => runtime_std_output = Concat(ClosedBuffers)

\* C7's case: two regions, one after the other, each captured text and exited
\* normally.
C7_Witness ==
    /\ ~nested /\ ~failed
    /\ frames = <<>>
    /\ Len(buffers) >= 2
    /\ buffers[1] # <<>> /\ buffers[2] # <<>>
    /\ rt_last.op = "exit"

\* C8: when the region raises, the text captured before the failure is still
\* appended to the cumulative log.
C8_RaisedRegionStillLogged ==
    rt_last.op = "exit_raise" => IsSuffix(buffers[rt_last.region], runtime_std_output)

\* C9: every exit of a region, normal or by an exception, at any nesting
\* depth, restores the channel that was current at the matching entry; with
\* no region open the channel is the one of the process.
C9_ExitRestoresChannel ==
    /\ rt_last.op \in {"exit", "exit_raise"} => sys_stdout = entered[rt_last.region]
    /\ frames = <<>> => sys_stdout = 0
    /\ frames # <<>> => sys_stdout = frames[Len(frames)].buffer

\* C9's case: a nested region was left by an exception and the channel is the
\* outer region's buffer again.
C9_Witness ==
    /\ rt_last.op = "exit_raise"
    /\ Len(frames) = 1
    /\ rt_last.region = 2
    /\ buffers[2] # <<>>
    /\ sys_stdout = 1

\* C10: a second destroy() on the same Runtime does not raise.
C10_SecondDestroyDoesNotRaise ==
    (rt_last.op = "destroy" /\ destroy_calls >= 2) => rt_last.error = None

\* The source text compile() runs for the Context the Compiler held, when
\* it resolves and runs without an error.
RanSource(ctx) ==
    LET source == pycontext_code(ctx)
    IN  IF source.error = None /\ exec_error(source.code) = None
        THEN source.code ELSE NoneText

CompileReturned == b_last.op = "compile" /\ rt.exists

\* C11: when an explicit injection and a Context injection binding carry the
\* same name and no property has that name, the facade attribute after the
\* bootstrap is the value the Context binding resolves to.
C11_ContextBindingOverwritesExplicit ==
    CompileReturned =>
        \A n \in (DOMAIN b_pre.injections \cap DOMAIN b_pre.cctx.injections)
                    \ DOMAIN heap[rt.ctx_ref].properties :
            /\ n \in DOMAIN rt.moss
            /\ rt.moss[n] = resolve_injection(b_pre.cctx.injections[n], b_pre.predefined).value

C11_Witness ==
    /\ CompileReturned
    /\ "x" \in DOMAIN b_pre.injections /\ b_pre.injections["x"] = "v1"
    /\ "x" \in DOMAIN b_pre.cctx.injections
    /\ "x" \notin DOMAIN heap[rt.ctx_ref].properties
    /\ rt.moss["x"] = "v2"

\* C12: for every property the Context declares, the facade attribute after
\* the bootstrap is the property's value, whatever explicit injection or
\* Context injection binding carries the same name.
C12_PropertyWinsOverInjections ==
    CompileReturned =>
        \A n \in DOMAIN b_pre.cctx.properties :
            /\ n \in DOMAIN rt.moss
            /\ rt.moss[n] = b_pre.cctx.properties[n]

C12_Witness ==
    /\ CompileReturned
    /\ "x" \in DOMAIN b_pre.cctx.properties
    /\ "x" \in DOMAIN b_pre.injections
    /\ "x" \in DOMAIN b_pre.cctx.injections
    /\ rt.moss["x"] = "prop:x"

\* C13: compiling an empty Context succeeds and yields a Runtime; it does
\* not fail while resolving the source text.
C13_EmptyContextCompiles ==
    (b_last.op = "compile" /\ b_pre.cctx = EmptyBootContext) =>
        (b_last.error = None /\ rt.exists)

\* C15: when the facade type the namespace declares is not a subclass of
\* Moss, the construction of the Runtime fails: no Runtime is returned, no
\* facade is instantiated and nothing is registered in the namespace.
C15_NotMossFacadeFails ==
    (b_last.op = "compile" /\ RanSource(b_pre.cctx) # NoneText
        /\ ~moss_type(RanSource(b_pre.cctx)).is_moss) =>
        /\ b_last.error = "TypeError"
        /\ ~rt.exists
        /\ ~b_last.instantiated
        /\ ~b_last.registered

C15_Witness ==
    /\ b_last.op = "compile"
    /\ b_pre.cctx.code = <<"N">>
    /\ b_last.error = "TypeError"
    /\ "x" \in DOMAIN b_pre.cctx.properties

\* The public names the facade type declares that neither a property nor an
\* injection sets.
StillUnset(ctx, explicit) ==
    {n \in moss_type(RanSource(ctx)).hints :
        /\ ~is_private(n)
        /\ n \notin DOMAIN ctx.properties
        /\ n \notin DOMAIN ctx.injections
        /\ n \notin DOMAIN explicit}

C17_FailedCompileKeepsConfiguration ==
    (b_last.op = "compile" /\ b_last.error \in {"SyntaxError", "RuntimeError"}) =>
        /\ c_predefined = b_pre.predefined
        /\ c_injections = b_pre.injections
        /\ heap[c_ref] = b_pre.cctx

C17_Witness ==
    /\ b_last.op = "compile"
    /\ b_last.error = "RuntimeError"
    /\ "loc" \in DOMAIN c_predefined
    /\ "x" \in DOMAIN c_injections
    /\ "y" \in DOMAIN heap[c_ref].properties

\* C18: the Runtime holds a copy of the Compiler's Context: what the
\* bootstrap or a caller defines on the Runtime's Context does not change
\* the Compiler's pending Context, and a later join_context does not change
\* what the Runtime's dump_context() returns.
C18_RuntimeHoldsDeepCopy ==
    /\ (rt.exists /\ c_alive) => rt.ctx_ref # c_ref
    /\ (b_last.op \in {"compile", "bootstrap", "dump_context_define"} /\ c_alive)
            => heap[c_ref] = b_pre.cctx
    /\ (b_last.op = "join_context" /\ rt.exists)
            => (rt = b_pre.rt /\ heap[rt.ctx_ref] = b_pre.rctx)

C18_Witness ==
    /\ b_last.op = "join_context"
    /\ rt.exists
    /\ c_alive
    /\ "x" \in DOMAIN heap[rt.ctx_ref].properties
    /\ "x" \notin DOMAIN heap[c_ref].properties
    /\ "y" \in DOMAIN heap[c_ref].properties
    /\ "y" \in DOMAIN heap[rt.ctx_ref].properties
    /\ heap[rt.ctx_ref].properties["y"] = "prop:y2"
    /\ heap[c_ref].properties["y"] = "prop:y"

\* C19 as stated: Compiler.destroy() releases the Compiler's own child
\* dependency scope and leaves the parent scope untouched.
C19_DestroyReleasesChildScope ==
    b_last.op = "compiler_destroy" =>
        (scopes.child = "destroyed" /\ scopes.parent = b_pre.scopes.parent)

\* C19: Compiler.destroy() drops the Compiler's reference to its own child
\* dependency scope without releasing it, and leaves the parent scope
\* untouched.
C19_DestroyDropsChildScope ==
    b_last.op = "compiler_destroy" =>
        /\ ~c_alive
        /\ scopes.child = b_pre.scopes.child
        /\ scopes.parent = b_pre.scopes.parent

C19_Witness ==
    /\ b_last.op = "compiler_destroy"
    /\ ~c_alive
    /\ rt.exists
    /\ scopes.child = "live"

\* C20: the bootstrap runs once; a later call is a no-op that leaves the
\* facade instance, the registrations in the namespace and the Context
\* unchanged.
C20_BootstrapRunsOnce ==
    b_last.op = "bootstrap" =>
        /\ rt = b_pre.rt
        /\ heap[rt.ctx_ref] = b_pre.rctx
        /\ ~b_last.instantiated
        /\ ~b_last.registered

C20_Witness ==
    /\ b_last.op = "bootstrap"
    /\ rt.built
    /\ rt.moss_id = 1
    /\ "x" \in DOMAIN c_injections
    /\ "x" \notin DOMAIN rt.moss

CategoryEnabled ==
    \/ p_value.kind = "class" /\ p_flags.cls
    \/ p_value.kind = "function" /\ p_flags.func
    \/ p_value.kind = "module" /\ p_flags.module
    \/ p_value.kind = "other" /\ p_flags.other

\* The output of the hook the rendering of p_value consults: the class-level
\* hook for a class, the hook under PROMPT_MAGIC_ATTR for the others.
HookOf(value) == IF value.kind = "class" THEN value.class_hook ELSE value.hook

\* C14 as stated: a concrete hookless class renders to no fragment, an
\* abstract hookless class renders to its literal source, and any hooked
\* value (class, function, module or other) renders to exactly its hook's
\* output.
C14_HookedValueRendersHookOutput ==
    (p_called /\ CategoryEnabled) =>
        /\ (p_value.kind = "class" /\ HookOf(p_value) = NoneText /\ ~p_value.abstract)
                => p_prompt = NoneText
        /\ (p_value.kind = "class" /\ HookOf(p_value) = NoneText /\ p_value.abstract)
                => p_prompt = p_value.source
        /\ truthy(HookOf(p_value)) => p_prompt = HookOf(p_value)

\* C14: for a value whose category is enabled, a concrete class without a
\* class-level hook renders to no fragment, an abstract class without one
\* renders to its literal source, a class with a class-level hook or a
\* hooked function renders to exactly its hook's output, and a module or
\* other value with a non-empty hook output renders to that output with its
\* quote marks escaped (and, for a module, indented) inside a delimited block
\* labelled with the name.
C14_HookedValueRendering ==
    (p_called /\ CategoryEnabled) =>
        /\ (p_value.kind = "class" /\ HookOf(p_value) = NoneText /\ ~p_value.abstract)
                => p_prompt = NoneText
        /\ (p_value.kind = "class" /\ HookOf(p_value) = NoneText /\ p_value.abstract)
                => p_prompt = p_value.source
        /\ (p_value.kind \in {"class", "function"} /\ HookOf(p_value) # NoneText)
                => p_prompt = HookOf(p_value)
        /\ (p_value.kind \in {"module", "other"} /\ truthy(HookOf(p_value))) =>
                LET body == IF p_value.kind = "module"
                            THEN add_source_indent(escape_string_quotes(HookOf(p_value), QUOTES))
                            ELSE escape_string_quotes(HookOf(p_value), QUOTES)
                    n == Len(p_prompt)
                IN  /\ n = Len(body) + 10
                    /\ SubSeq(p_prompt, 6, n - 5) = body
                    /\ SubSeq(p_prompt, 3, 5) = <<NL, QUOTES, NL>>
                    /\ SubSeq(p_prompt, n - 4, n - 2) = <<NL, QUOTES, NL>>
                    /\ p_prompt[1] = NL /\ p_prompt[n] = NL
                    /\ p_prompt[2] = (IF p_value.kind = "module"
                                      THEN "# information of '" \o p_name \o "' (module '"
                                            \o p_value.name \o "') :"
                                      ELSE "# value of '" \o p_name \o "':")
                    /\ p_prompt[n - 1] = (IF p_value.kind = "module"
                                          THEN "# information of '" \o p_name \o "' over."
                                          ELSE "# value of '" \o p_name \o "' over.")

C14_Witness ==
    /\ p_called
    /\ p_value.kind = "module"
    /\ p_flags.module
    /\ p_value.hook = <<"h", NL, QUOTES>>
    /\ p_prompt # NoneText
    /\ p_prompt # p_value.hook

(***************************************************************************)
(* The source text, reflection, aggregation and Thread claims              *)
(***************************************************************************)
\* C21: the source text resolved for compilation holds the prelude exactly
\* once: it is prepended when the source has none, the source is returned as
\* it is when it holds the prelude anywhere, and resolving a resolved text
\* returns it unchanged.
C21_PreludeExactlyOnce ==
    \A k \in 1..Len(s_results) :
        /\ count(s_results[k]) = 1
        /\ (k = 1 /\ count(s_code) = 1) => s_results[k] = s_code
        /\ (k = 1 /\ count(s_code) = 0) =>
                (Head(s_results[k]) = IMPORT_FUTURE
                 /\ IsSuffix(lstrip_newlines(s_code), s_results[k]))
        /\ k > 1 => s_results[k] = s_results[k - 1]

\* What the call rendered the value to: NoneText when it gave no fragment.
Rendered ==
    IF r_via = "attr" THEN r_prompt
    ELSE IF r_yielded = <<>> THEN NoneText
    ELSE r_yielded[1].prompt

\* The name filter of the specification: private names only when included,
\* a member of the include-set, not a member of the exclude-set.
NameKept ==
    /\ is_private(r_name) => (r_includes # NoneSet /\ r_name \in r_includes)
    /\ r_includes # NoneSet => r_name \in r_includes
    /\ r_excludes # NoneSet => r_name \notin r_excludes

MatchesAllow ==
    \E prefix \in r_includes_module_prefixes : str_startswith(r_value.module, prefix)
MatchesDeny ==
    \E prefix \in r_excludes_module_prefixes : str_startswith(r_value.module, prefix)

FromAnotherModule == r_value.module \notin {None, CurrentModule} /\ r_value.kind # "builtin"

PrefixKept ==
    /\ r_includes_module_prefixes # NoneSet => MatchesAllow
    /\ r_excludes_module_prefixes # NoneSet => ~MatchesDeny

\* C22: reflect_module_locals skips every module value unless the module
\* category is enabled and the module has a hook; with the default flags no
\* module value gives a fragment.
C22_ModulesSkippedByDefault ==
    (r_via = "locals" /\ r_value.kind = "module"
        /\ ~(r_flags.module /\ r_value.hook # NoneText)) => Rendered = NoneText

\* C23: reflect_module_locals with the type-alias category enabled renders
\* every type alias that passes the filters and is not of the module typing
\* as the bare assignment name = value.
C23_TypeAliasRendered ==
    (r_via = "locals" /\ r_flags.typing /\ r_value.kind = "typing"
        /\ r_value.module # "typing" /\ FromAnotherModule /\ NameKept /\ PrefixKept) =>
        Rendered = <<r_name \o " = " \o r_value.text>>

\* C24: the name filter drops every private name that is not in the
\* include-set; with no include-set no private name is rendered.
C24_PrivateNamesDropped ==
    (r_via # "none" /\ is_private(r_name)
        /\ ~(r_includes # NoneSet /\ r_name \in r_includes)) => Rendered = NoneText

\* C25: when an allow-prefix set and a deny-prefix set are both given, a
\* value of another module is rendered only if its declaring module matches
\* some allow prefix and no deny prefix.
C25_BothPrefixFiltersApply ==
    (r_via # "none" /\ truthy_set(r_includes_module_prefixes)
        /\ truthy_set(r_excludes_module_prefixes) /\ FromAnotherModule
        /\ Rendered # NoneText) => (MatchesAllow /\ ~MatchesDeny)

\* C26: a value declared in the namespace being rendered gives a fragment
\* if and only if it has a hook, whether it is a class, a function or any
\* other value.
C26_LocalValueNeedsHook ==
    (r_via # "none" /\ r_value.module = CurrentModule /\ NameKept
        /\ r_value.kind \in {"class", "function", "other"}) =>
        (Rendered # NoneText <=> HookOf(r_value) # NoneText)

\* The fragments stripped by f, the empty ones dropped, the others joined
\* in their order with the two-blank-line separator.
Aggregated(f(_), prompts) ==
    LET stripped == [k \in 1..Len(prompts) |-> f(prompts[k])]
        kept(line) == line # <<>>
    IN  join_three_newlines(SelectSeq(stripped, kept))

\* C27: the aggregation strips the trailing white space of every fragment,
\* drops the fragments that are then empty and joins the others in their
\* order with the two-blank-line separator.
C27_AggregationStripsAndJoins ==
    a_via # "none" =>
        (a_result = Aggregated(rstrip, a_prompts) \/ a_result = Aggregated(strip, a_prompts))

\* C30: Thread.update returns a new Thread and leaves the receiver
\* unchanged: the receiver's appending list and pycontext are after the call
\* what they were before it.
C30_UpdateLeavesReceiverUnchanged ==
    t_last.op = "update" =>
        /\ Len(t_threads) >= 2
        /\ t_lists[t_threads[t_last.self].appending] = t_last.appending
        /\ t_threads[t_last.self].pycontext = t_last.pycontext

\* entries with the entry whose key is that of e replaced by e where it
\* stands, or with e appended at the end when no entry has that key.
ReplacedOrAppended(entries, e, key(_)) ==
    LET hit == {k \in 1..Len(entries) : key(entries[k]) = key(e)}
    IN  IF hit = {} THEN Append(entries, e)
        ELSE [k \in 1..Len(entries) |-> IF k \in hit THEN e ELSE entries[k]]

DefineName(d) == d.name

\* C28: add_import and add_define keep every unaffected entry and the
\* relative order of the unaffected entries: a replaced entry stays at the
\* position of the entry it replaces, and a new entry is appended at the end.
C28_AddKeepsUnaffectedEntries ==
    [][/\ last'.op = "add_import" =>
            ctxs'[last'.tgt].imports =
                ReplacedOrAppended(ctxs[last'.tgt].imports, last'.imp, get_import_path)
       /\ last'.op = "add_define" =>
            ctxs'[last'.tgt].defines =
                ReplacedOrAppended(ctxs[last'.tgt].defines, last'.def, DefineName)]_vars

\* C29: destroying a Runtime leaves the Compiler that produced it usable:
\* Runtime.destroy() does not destroy a dependency scope that the Compiler
\* still holds.
C29_RuntimeDestroyKeepsSharedScope ==
    (b_last.op = "runtime_destroy" /\ c_alive) =>
        (scopes.child = "live" /\ scopes.parent = "live")

====
